---- MODULE Spec2Model ----
(***************************************************************************)
(* A model of orchestrator/python_xml_converter.py: the XML variant        *)
(* generator.  One run of main() is a sequence of steps (pc); the random   *)
(* module is a seeded word generator read through getrandbits / _randbelow *)
(* exactly as random.choice and random.randint read it; element trees are  *)
(* objects on a heap, so that aliasing between the template and its clones *)
(* is something the model can get wrong.                                   *)
(***************************************************************************)
EXTENDS Integers, Sequences, FiniteSets, TLC

\* ------------------------------------------------------------------------
\* Bounds of the model
\* ------------------------------------------------------------------------
MaxN == 2
MaxSeed == 1
MaxClock == 3
MaxRuns == 2
WordBits == 17
MaxTzSeed == 31
MaxTzCalls == 4
MaxRows == 2
TicksPerMinute == 2
MinutesPerDay == 2

\* ------------------------------------------------------------------------
\* Program constants
\* ------------------------------------------------------------------------
AttemptMultiplier == 20
NumFirstNames == 15
NumLastNames == 13
NumLetters == 26
NumStreets == 10
NumCities == 10
NumAuStates == 8
NumGenericStates == 10
MaxStreetNum == 9999
AuPostLo == 2000
AuPostHi == 7999
GenericPostLo == 10000
GenericPostHi == 99999
TzHourLo == 0 - 12
TzHourHi == 14

NAME_FORMATS == <<"first_last", "last_first", "first_m_last", "u_case", "l_case">>
ADDRESS_FORMATS == <<"one_line", "multi_line", "with_country", "no_state">>
TZ_MINUTES == <<0, 15, 30, 45>>
DEFAULT_DATE_FORMATS == <<"%Y-%m-%d", "%d/%m/%Y", "%m-%d-%Y", "%d %b %Y", "%B %d, %Y", "%Y%m%d">>
DEFAULT_TIME_FORMATS == <<"%H:%M", "%H:%M:%S", "%I:%M %p", "%H:%M:%S.%f">>
BUILTIN_KEYS == <<"name", "address", "date", "time">>

TicksPerDay == TicksPerMinute * MinutesPerDay

RECURSIVE Pow2(_)
Pow2(k) == IF k = 0 THEN 1 ELSE 2 * Pow2(k - 1)

\* ------------------------------------------------------------------------
\* The random module: a seeded generator of WordBits-bit words.
\* ------------------------------------------------------------------------
RngModulus == Pow2(WordBits + 6)

\* random.seed(args.seed): the generator state is a function of the seed only
RandomSeed(seed) == (seed * 7919 + 104729) % RngModulus

\* one step of the generator
RngStep(s) == (s * 5 + 3) % RngModulus

\* the word the generator yields in state s (its high bits)
RngWord(s) == s \div Pow2(6)

RECURSIVE BitLength(_)
BitLength(n) == IF n = 0 THEN 0 ELSE 1 + BitLength(n \div 2)

\* The one element of a singleton set.  "Val({e(x) : x \in {d}})" is
\* "LET x == d IN e(x)" with d evaluated once, before e.
Val(S) == CHOOSE v \in S : TRUE

\* getrandbits(k): the top k bits of the next word; returns value and new state
GetRandBits(s, k) ==
    Val({[r |-> RngWord(s2) \div Pow2(WordBits - k), rng |-> s2] : s2 \in {RngStep(s)}})

\* _randbelow(n): draw k = n.bit_length() bits until the draw is below n
RECURSIVE RandBelowFrom(_, _, _)
RandBelowFrom(s, n, k) ==
    Val({IF d.r < n THEN d ELSE RandBelowFrom(d.rng, n, k) : d \in {GetRandBits(s, k)}})

RandBelow(s, n) == RandBelowFrom(s, n, BitLength(n))

\* random.randint(a, b)
RandInt(s, a, b) ==
    Val({[r |-> a + d.r, rng |-> d.rng] : d \in {RandBelow(s, b - a + 1)}})

\* random.choice(seq)
RandChoice(s, seq) ==
    Val({[r |-> seq[d.r + 1], rng |-> d.rng] : d \in {RandBelow(s, Len(seq))}})

\* ------------------------------------------------------------------------
\* XML documents and element trees
\* ------------------------------------------------------------------------
\* Element.text of an element without text
None == [kind |-> "none"]

\* A document as text: its elements in document order, each with its depth.
\* An element's tag is "{ns}local", or "local" when ns is empty.
El(ns, local, depth) == [ns |-> ns, local |-> local, text |-> None, depth |-> depth]

\* <Doc><Name/><Date/><Time/></Doc>
PlainDoc == <<El("", "Doc", 0), El("", "Name", 1), El("", "Date", 1), El("", "Time", 1)>>

\* <n:Doc xmlns:n="ns"><n:Person><n:Name/><n:Address/></n:Person><n:Date/><name/></n:Doc>
NamespacedDoc ==
    <<El("ns", "Doc", 0), El("ns", "Person", 1), El("ns", "Name", 2),
      El("ns", "Address", 2), El("ns", "Date", 1), El("", "name", 1)>>

\* the input files of the model; "malformed" is a file ET.parse rejects
Inputs == {"plain", "namespaced", "malformed"}

InputDoc(input) == IF input = "plain" THEN PlainDoc ELSE NamespacedDoc

\* str.lower() on the tag names and selectors of the model
Lower(s) ==
    CASE s = "Doc" -> "doc"
      [] s = "Person" -> "person"
      [] s = "Name" -> "name"
      [] s = "Address" -> "address"
      [] s = "Date" -> "date"
      [] s = "Time" -> "time"
      [] s = "TRUE" -> "true"
      [] OTHER -> s

\* index of the parent of element j of a document: the nearest earlier
\* element one level up (0 for the root)
RECURSIVE ParentIdx(_, _, _)
ParentIdx(doc, j, i) ==
    IF i = 0 THEN 0
    ELSE IF doc[i].depth = doc[j].depth - 1 THEN i
    ELSE ParentIdx(doc, j, i - 1)

\* ET.parse / ET.fromstring: build fresh element objects at base+1 .. base+Len(doc)
ParseDoc(doc, base) ==
    [id \in (base + 1)..(base + Len(doc)) |->
        LET i == id - base
            kids == SelectSeq([j \in 1..Len(doc) |-> j],
                              LAMBDA j : j > i /\ ParentIdx(doc, j, j - 1) = i)
        IN  [ns |-> doc[i].ns, local |-> doc[i].local, text |-> doc[i].text,
             children |-> [x \in 1..Len(kids) |-> base + kids[x]]]]

\* Element.iter(): the element and its descendants in document order
RECURSIVE Iter(_, _), IterAll(_, _)
Iter(h, id) == <<id>> \o IterAll(h, h[id].children)
IterAll(h, ids) ==
    IF ids = <<>> THEN <<>> ELSE Iter(h, Head(ids)) \o IterAll(h, Tail(ids))

\* ET.tostring: the elements of the tree at root, in document order
RECURSIVE Serialize(_, _, _), SerializeAll(_, _, _)
Serialize(h, id, depth) ==
    <<[ns |-> h[id].ns, local |-> h[id].local, text |-> h[id].text, depth |-> depth]>>
        \o SerializeAll(h, h[id].children, depth + 1)
SerializeAll(h, ids, depth) ==
    IF ids = <<>> THEN <<>>
    ELSE Serialize(h, Head(ids), depth) \o SerializeAll(h, Tail(ids), depth)

tostring(h, root) == Serialize(h, root, 0)

\* a strip_ns that leaves the tag as it is
strip_ns_keep_ns(el) ==
    IF el.ns = "" THEN el.local ELSE "{" \o el.ns \o "}" \o el.local

\* strip_ns: '{ns}Local' -> 'Local'
strip_ns(el) == el.local

\* find_elements_ns_agnostic: tag_name is the selector, a sequence of tokens
find_elements_ns_agnostic(h, root, tag_name) ==
    SelectSeq(Iter(h, root),
              LAMBDA id : <<Lower(strip_ns(h[id]))>> = [i \in 1..Len(tag_name) |-> Lower(tag_name[i])])

\* an element's tag equals the path step t: no namespace and the same name
TagIs(el, t) == el.ns = "" /\ el.local = t

\* Element.findall(path) for the path shapes of the model:
\* "/..." raises (absolute path on an element); ".", "./T" and ".//T" select
FindAll(h, root, path) ==
    CASE path[1] = "/" -> [raised |-> TRUE, els |-> <<>>]
      [] path = <<".">> -> [raised |-> FALSE, els |-> <<root>>]
      [] Len(path) = 3 /\ path[1] = "." /\ path[2] = "/" ->
            [raised |-> FALSE,
             els |-> SelectSeq(h[root].children, LAMBDA id : TagIs(h[id], path[3]))]
      [] Len(path) = 4 /\ path[1] = "." /\ path[2] = "/" /\ path[3] = "/" ->
            [raised |-> FALSE,
             els |-> SelectSeq(Tail(Iter(h, root)), LAMBDA id : TagIs(h[id], path[4]))]

\* str.strip('./'): drop leading and trailing '.' and '/' characters
RECURSIVE StripLeft(_), StripRight(_)
StripLeft(sel) ==
    IF sel # <<>> /\ Head(sel) \in {".", "/"} THEN StripLeft(Tail(sel)) ELSE sel
StripRight(sel) ==
    IF sel # <<>> /\ sel[Len(sel)] \in {".", "/"}
    THEN StripRight(SubSeq(sel, 1, Len(sel) - 1)) ELSE sel
StripPath(sel) == StripRight(StripLeft(sel))

\* select_elements
select_elements(h, root, selector) ==
    IF selector[1] = "." \/ selector[1] = "/"
    THEN LET q == FindAll(h, root, selector)
         IN  IF q.raised
             THEN find_elements_ns_agnostic(h, root, StripPath(selector))
             ELSE q.els
    ELSE find_elements_ns_agnostic(h, root, selector)

Range(seq) == {seq[i] : i \in 1..Len(seq)}

\* an assignment that only fills elements without text
SetText_keep_first(h, els, val) ==
    [id \in DOMAIN h |->
        IF id \in Range(els) /\ h[id].text = None THEN [h[id] EXCEPT !.text = val]
        ELSE h[id]]

\* el.text = val for every el of els
SetText(h, els, val) ==
    [id \in DOMAIN h |-> IF id \in Range(els) THEN [h[id] EXCEPT !.text = val] ELSE h[id]]

\* a loop over mapping.items() that stops at the first selector without a match
RECURSIVE ApplyFrom_stop_on_miss(_, _, _, _, _, _)
ApplyFrom_stop_on_miss(h, new_root, mapping, values, i, affected) ==
    IF i > Len(mapping) THEN [heap |-> h, affected |-> affected]
    ELSE IF mapping[i].key \notin DOMAIN values
    THEN ApplyFrom_stop_on_miss(h, new_root, mapping, values, i + 1, affected)
    ELSE Val({ IF els = <<>>
               THEN [heap |-> h, affected |-> (mapping[i].key :> 0) @@ affected]
               ELSE Val({ ApplyFrom_stop_on_miss(h2, new_root, mapping, values, i + 1, a2) :
                          h2 \in {SetText(h, els, values[mapping[i].key])},
                          a2 \in {(mapping[i].key :> Len(els)) @@ affected} }) :
               els \in {select_elements(h, new_root, mapping[i].sel)} })

\* apply_values_to_tree: the loop over mapping.items(), from item i on
\* (key, selector = mapping[i]; val = values.get(key))
RECURSIVE ApplyFrom(_, _, _, _, _, _)
ApplyFrom(h, new_root, mapping, values, i, affected) ==
    IF i > Len(mapping) THEN [heap |-> h, affected |-> affected]
    ELSE IF mapping[i].key \notin DOMAIN values
    THEN ApplyFrom(h, new_root, mapping, values, i + 1, affected)
    ELSE Val({ Val({ ApplyFrom(h2, new_root, mapping, values, i + 1, a2) :
                     h2 \in {SetText(h, els, values[mapping[i].key])},
                     a2 \in {(mapping[i].key :> Len(els)) @@ affected} }) :
               els \in {select_elements(h, new_root, mapping[i].sel)} })

\* a "clone" that is the tree itself
CloneTree_alias(h, root) == [heap |-> h, root |-> root]

\* the clone of apply_values_to_tree: ET.fromstring(ET.tostring(tree.getroot()));
\* the new elements are allocated after the highest id in use
CloneTree(h, root) ==
    LET base == Cardinality(DOMAIN h)
    IN  [heap |-> ParseDoc(tostring(h, root), base) @@ h, root |-> base + 1]

\* apply_values_to_tree(tree, mapping, values)
apply_values_to_tree(h, root, mapping, values) ==
    Val({ Val({ [heap |-> r.heap, new_root |-> c.root, affected |-> r.affected] :
                r \in {ApplyFrom(c.heap, c.root, mapping, values, 1, <<>>)} }) :
          c \in {CloneTree(h, root)} })

\* ------------------------------------------------------------------------
\* Random values
\* ------------------------------------------------------------------------
Indices(n) == [i \in 1..n |-> i]

FIRST_NAMES == Indices(NumFirstNames)
LAST_NAMES == Indices(NumLastNames)
ascii_uppercase == Indices(NumLetters)

\* A rendered value is a record of the parts its text shows: a part the
\* format leaves out is 0, so two renderings are equal iff their texts are.
NameText(fmt, first, last, middle) ==
    [kind |-> "name", fmt |-> fmt, first |-> first, last |-> last,
     middle |-> IF fmt = "first_m_last" THEN middle ELSE 0]

\* random_name: the dict of formats, and the generator state after the draws
random_name(s) ==
    Val({ Val({ Val({
        [formats |-> [i \in 1..Len(NAME_FORMATS) |->
                        NameText(NAME_FORMATS[i], first.r, last.r, middle.r)],
         rng |-> middle.rng] :
            middle \in {RandChoice(last.rng, ascii_uppercase)} }) :
            last \in {RandChoice(first.rng, LAST_NAMES)} }) :
            first \in {RandChoice(s, FIRST_NAMES)} })

\* random_postcode
random_postcode(s, locale) ==
    IF locale = "au" THEN RandInt(s, AuPostLo, AuPostHi)
    ELSE RandInt(s, GenericPostLo, GenericPostHi)

AddressText(fmt, locale, num, street, city, state, pc) ==
    [kind |-> "address", fmt |-> fmt, locale |-> locale, num |-> num,
     street |-> street, city |-> city,
     state |-> IF fmt = "no_state" THEN 0 ELSE state, pc |-> pc]

\* random_address
random_address(s, locale) ==
    Val({ Val({ Val({ Val({ Val({
        [formats |-> [i \in 1..Len(ADDRESS_FORMATS) |->
                        AddressText(ADDRESS_FORMATS[i], locale, num.r, street.r,
                                    city.r, state.r, pc.r)],
         rng |-> pc.rng] :
            pc \in {random_postcode(state.rng, locale)} }) :
            state \in {RandChoice(city.rng,
                          Indices(IF locale = "au" THEN NumAuStates ELSE NumGenericStates))} }) :
            city \in {RandChoice(street.rng, Indices(NumCities))} }) :
            street \in {RandChoice(num.rng, Indices(NumStreets))} }) :
            num \in {RandInt(s, 1, MaxStreetNum)} })

\* random_date_between(start, end): instants are ticks since the floor
\* (2015-01-01), so start is 0 and end is the clock reading
random_date_between(s, start, end) ==
    Val({[r |-> start + seconds.r, rng |-> seconds.rng] :
            seconds \in {RandInt(s, 0, end - start)}})

Abs(x) == IF x < 0 THEN 0 - x ELSE x

\* the sign of random_tz_offset_str, line 185
TzSign(offset_hours, offset_minutes) ==
    IF offset_hours > 0 \/ (offset_hours = 0 /\ offset_minutes >= 0) THEN "+" ELSE "-"

\* f"{sign}{abs(offset_hours):02d}:{abs(offset_minutes):02d}", line 186
TzText(offset_hours, offset_minutes) ==
    [z |-> "offset", sign |-> TzSign(offset_hours, offset_minutes),
     hh |-> Abs(offset_hours), mm |-> Abs(offset_minutes)]

\* random_tz_offset_str
random_tz_offset_str(s) ==
    Val({ Val({
        [r |-> TzText(offset_hours.r, offset_minutes.r),
         rng |-> offset_minutes.rng] :
            offset_minutes \in {RandChoice(offset_hours.rng, TZ_MINUTES)} }) :
            offset_hours \in {RandInt(s, TzHourLo, TzHourHi)} })

NoZone == [z |-> "", sign |-> "", hh |-> 0, mm |-> 0]
Zulu == [z |-> "Z", sign |-> "", hh |-> 0, mm |-> 0]

\* dt.strftime(date_fmt): every date pattern of the model shows the whole day
DateText(dt, date_fmt) == [kind |-> "date", fmt |-> date_fmt, day |-> dt \div TicksPerDay]

\* dt.strftime(time_fmt): "%H:%M" and "%I:%M %p" drop the seconds
TimeText(dt, time_fmt, zone) ==
    LET tod == dt % TicksPerDay
    IN  [kind |-> "time", fmt |-> time_fmt,
         tod |-> IF time_fmt \in {"%H:%M", "%I:%M %p"}
                 THEN (tod \div TicksPerMinute) * TicksPerMinute ELSE tod,
         zone |-> zone]

\* format_date_time
format_date_time(s, dt, date_fmt, time_fmt, with_zone) ==
    IF with_zone
    THEN Val({ IF choice.r = "Z"
               THEN [date |-> DateText(dt, date_fmt),
                     time |-> TimeText(dt, time_fmt, Zulu), rng |-> choice.rng]
               ELSE Val({ [date |-> DateText(dt, date_fmt),
                           time |-> TimeText(dt, time_fmt, off.r), rng |-> off.rng] :
                          off \in {random_tz_offset_str(choice.rng)} }) :
               choice \in {RandChoice(s, <<"Z", "offset">>)} })
    ELSE [date |-> DateText(dt, date_fmt), time |-> TimeText(dt, time_fmt, NoZone),
          rng |-> s]

\* a choice of formats that always varies them
ChooseFormats_always_vary(s, date_formats, time_formats, vary_formats) ==
    Val({ Val({ Val({
        [date_fmt |-> date_fmt.r, time_fmt |-> time_fmt.r,
         with_zone |-> with_zone.r, rng |-> with_zone.rng] :
            with_zone \in {RandChoice(time_fmt.rng, <<TRUE, FALSE>>)} }) :
            time_fmt \in {RandChoice(date_fmt.rng, time_formats)} }) :
            date_fmt \in {RandChoice(s, date_formats)} })

\* lines 248-255: the formats and the zone flag of one attempt
ChooseFormats(s, date_formats, time_formats, vary_formats) ==
    IF vary_formats
    THEN Val({ Val({ Val({
            [date_fmt |-> date_fmt.r, time_fmt |-> time_fmt.r,
             with_zone |-> with_zone.r, rng |-> with_zone.rng] :
                with_zone \in {RandChoice(time_fmt.rng, <<TRUE, FALSE>>)} }) :
                time_fmt \in {RandChoice(date_fmt.rng, time_formats)} }) :
                date_fmt \in {RandChoice(s, date_formats)} })
    ELSE [date_fmt |-> date_formats[1], time_fmt |-> time_formats[1],
          with_zone |-> FALSE, rng |-> s]

\* generate_variant_values; now is the reading of datetime.now()
generate_variant_values(s, now, locale, date_formats, time_formats, vary_formats) ==
    Val({ Val({ Val({ Val({ Val({ Val({ Val({
        [values |-> [name |-> name_choice.r, address |-> addr_choice.r,
                     date |-> dts.date, time |-> dts.time],
         rng |-> dts.rng] :
            dts \in {format_date_time(f.rng, dt.r, f.date_fmt, f.time_fmt, f.with_zone)} }) :
            f \in {ChooseFormats(dt.rng, date_formats, time_formats, vary_formats)} }) :
            dt \in {random_date_between(addr_choice.rng, 0, now)} }) :
            addr_choice \in {RandChoice(addr_formats.rng, addr_formats.formats)} }) :
            addr_formats \in {random_address(name_choice.rng, locale)} }) :
            name_choice \in {RandChoice(name_formats.rng, name_formats.formats)} }) :
            name_formats \in {random_name(s)} })

\* an ensure_unique that never looks the tuple up
ensure_unique_no_lookup(across, vals_tuple) ==
    [ok |-> TRUE, across |-> across \cup {vals_tuple}]

\* an ensure_unique that answers but never records the tuple
ensure_unique_no_add(across, vals_tuple) ==
    [ok |-> vals_tuple \notin across, across |-> across]

\* ensure_unique: the answer, and the set afterwards
ensure_unique(across, vals_tuple) ==
    IF vals_tuple \in across THEN [ok |-> FALSE, across |-> across]
    ELSE [ok |-> TRUE, across |-> across \cup {vals_tuple}]

\* ------------------------------------------------------------------------
\* The command line
\* ------------------------------------------------------------------------
Sel(k, sel) == [key |-> k, sel |-> sel]

\* the values of --map in the model (<<>>: the option is omitted)
MapArgs ==
    { <<>>,
      <<Sel("name", <<".", "/", "/", "Name">>), Sel("date", <<".", "/", "/", "Date">>)>>,
      <<Sel("name", <<"/", "Name">>)>>,
      <<Sel("custom", <<"Doc">>)>>,
      <<Sel("time", <<"Time">>)>>,
      <<Sel("name", <<"doc">>), Sel("address", <<"Name">>), Sel("date", <<"name">>)>> }

\* the mapping main() uses when --map gives none
DefaultMapping ==
    <<Sel("name", <<"name">>), Sel("address", <<"address">>),
      Sel("date", <<"date">>), Sel("time", <<"time">>)>>

\* --seed: <<>> when omitted, <<s>> for the integer s
SeedArgs == {<<>>} \cup {<<s>> : s \in 0..MaxSeed}

Locales == {"generic", "au"}

Args ==
    [input : Inputs, n : 0..MaxN, map : MapArgs, vary_formats : BOOLEAN,
     seed : SeedArgs, locale : Locales,
     date_formats : {DEFAULT_DATE_FORMATS}, time_formats : {DEFAULT_TIME_FORMATS}]

\* ------------------------------------------------------------------------
\* State
\* ------------------------------------------------------------------------
VARIABLES
    args,             \* the parsed command line
    pc,               \* where main() is
    run,              \* how many times the program has been started
    clock,            \* the wall clock, in ticks since 2015-01-01
    rng,              \* the state of the random module
    fs,               \* the file system: output directory, manifest, variant files
    produced,         \* what this run has created or written on the file system
    out,              \* the lines this run has printed
    heap,             \* the element objects of this process
    template_root,    \* root of template_tree (0 before it is read)
    clones,           \* roots of the trees apply_values_to_tree has returned
    mapping,
    seen,
    count_generated,
    attempts,
    values,
    vals_tuple,
    affected,
    xml_text,
    variant_id,
    rejected,         \* how many attempts of this run were rejected as duplicates
    prev,             \* manifest rows and files of the previous run
    jm,               \* HybridReportMerger.parse_jmeter_results: file, position, summary
    tz                \* random_tz_offset_str: the two draws and the text

vars == <<args, pc, run, clock, rng, fs, produced, out, heap, template_root, clones,
          mapping, seen, count_generated, attempts, values, vals_tuple, affected,
          xml_text, variant_id, rejected, prev, jm, tz>>

procVars == <<heap, template_root, clones, mapping, seen, count_generated, attempts,
              values, vals_tuple, affected, xml_text, variant_id, rejected>>

NoValues == [name |-> None, address |-> None, date |-> None, time |-> None]
NoManifest == [exists |-> FALSE, header |-> FALSE, rows |-> <<>>]
Artefact(kind, id) == [kind |-> kind, id |-> id]

\* the process state before main() has done anything
FreshProcess ==
    /\ heap = <<>>
    /\ template_root = 0
    /\ clones = <<>>
    /\ mapping = <<>>
    /\ seen = {}
    /\ count_generated = 0
    /\ attempts = 0
    /\ values = NoValues
    /\ vals_tuple = <<>>
    /\ affected = <<>>
    /\ xml_text = <<>>
    /\ variant_id = 0
    /\ rejected = 0

\* parse_jmeter_results and random_tz_offset_str when they are not running
JmIdle == [pc |-> "idle"]
TzIdle == [pc |-> "idle"]

Init ==
    /\ args \in Args
    /\ pc = "start"
    /\ run = 1
    /\ clock = 1
    /\ rng = 0
    /\ fs = [dir |-> FALSE, manifest |-> NoManifest, files |-> <<>>]
    /\ produced = {}
    /\ out = <<>>
    /\ prev = [rows |-> <<>>, files |-> {}]
    /\ FreshProcess
    /\ jm = JmIdle
    /\ tz = TzIdle

\* ------------------------------------------------------------------------
\* main()
\* ------------------------------------------------------------------------
\* lines 315-321: seed the random module, make the output directory
Start ==
    /\ pc = "start"
    /\ IF args.seed # <<>> THEN rng' = RandomSeed(args.seed[1])
       ELSE rng' \in {RandomSeed(s) : s \in 0..MaxSeed}
    /\ fs' = [fs EXCEPT !.dir = TRUE]
    /\ produced' = IF fs.dir THEN produced ELSE produced \cup {Artefact("dir", 0)}
    /\ pc' = "read"
    /\ UNCHANGED <<args, run, clock, out, prev>>
    /\ UNCHANGED procVars
    /\ UNCHANGED <<jm, tz>>

\* read_xml, lines 324-325
ReadXml ==
    /\ pc = "read"
    /\ IF args.input = "malformed"
       THEN /\ out' = Append(out, "ERROR")
            /\ pc' = "aborted"
            /\ UNCHANGED <<heap, template_root>>
       ELSE /\ heap' = ParseDoc(InputDoc(args.input), 0)
            /\ template_root' = 1
            /\ pc' = "open"
            /\ out' = out
    /\ UNCHANGED <<args, run, clock, rng, fs, produced, prev, clones, mapping, seen,
                   count_generated, attempts, values, vals_tuple, affected, xml_text,
                   variant_id>>
    /\ UNCHANGED <<rejected, jm, tz>>

\* lines 328-354: build the mapping, open the manifest, write its header
OpenManifest ==
    /\ pc = "open"
    /\ mapping' = IF args.map = <<>> THEN DefaultMapping ELSE args.map
    /\ fs' = [fs EXCEPT !.manifest = [exists |-> TRUE, header |-> TRUE, rows |-> <<>>]]
    /\ produced' = produced \cup {Artefact("manifest", 0)}
    /\ seen' = {}
    /\ count_generated' = 0
    /\ attempts' = 0
    /\ pc' = "loop"
    /\ UNCHANGED <<args, run, clock, rng, out, prev, heap, template_root, clones,
                   values, vals_tuple, affected, xml_text, variant_id>>
    /\ UNCHANGED <<rejected, jm, tz>>

max_total_attempts == args.n * AttemptMultiplier

\* a loop that admits one attempt more than the bound
LoopCond_one_more(c, a, n, max) == c < n /\ a <= max

\* a loop that gives up one attempt before the bound
LoopCond_one_less(c, a, n, max) == c < n /\ a < max - 1

\* the condition of the while loop, line 356
LoopCond(c, a, n, max) == c < n /\ a < max

LoopTest ==
    /\ pc = "loop"
    /\ pc' = IF LoopCond(count_generated, attempts, args.n, max_total_attempts)
             THEN "attempt" ELSE "report"
    /\ UNCHANGED <<args, run, clock, rng, fs, produced, out, prev>>
    /\ UNCHANGED procVars
    /\ UNCHANGED <<jm, tz>>

\* used keys that are the four built-in keys whatever the mapping has
used_keys_all(m) == BUILTIN_KEYS

\* used_keys, line 367
used_keys(m) ==
    SelectSeq(BUILTIN_KEYS, LAMBDA k : \E i \in 1..Len(m) : m[i].key = k)

\* vals_tuple, line 368
ValsTuple(vals, keys) == [i \in 1..Len(keys) |-> vals[keys[i]]]

\* lines 357-371: one attempt up to the uniqueness check
Attempt ==
    /\ pc = "attempt"
    /\ attempts' = attempts + 1
    /\ \E g \in {generate_variant_values(rng, clock, args.locale, args.date_formats,
                                         args.time_formats, args.vary_formats)} :
       \E t \in {ValsTuple(g.values, used_keys(mapping))} :
       \E u \in {ensure_unique(seen, t)} :
           /\ values' = g.values
           /\ rng' = g.rng
           /\ vals_tuple' = t
           /\ seen' = u.across
           /\ pc' = IF u.ok THEN "apply" ELSE "loop"
           /\ rejected' = IF u.ok THEN rejected ELSE rejected + 1
    /\ UNCHANGED <<args, run, clock, fs, produced, out, prev, heap, template_root,
                   clones, mapping, count_generated, affected, xml_text, variant_id>>
    /\ UNCHANGED <<jm, tz>>

\* lines 374-378: build the variant tree and serialize it
Apply ==
    /\ pc = "apply"
    /\ \E r \in {apply_values_to_tree(heap, template_root, mapping, values)} :
           /\ heap' = r.heap
           /\ clones' = Append(clones, r.new_root)
           /\ affected' = r.affected
           /\ xml_text' = tostring(r.heap, r.new_root)
    /\ pc' = "write"
    /\ UNCHANGED <<args, run, clock, rng, fs, produced, out, prev, template_root,
                   mapping, seen, count_generated, attempts, values, vals_tuple,
                   variant_id>>
    /\ UNCHANGED <<rejected, jm, tz>>

\* an id taken from the attempt counter
NextVariantId_from_attempts(c, a) == a

\* variant_id, line 380
NextVariantId(c, a) == c + 1

\* xml_filename, line 381: <base_name>_variant_<id>.xml
XmlFilename(base_name, id) == [base |-> base_name, id |-> id]

\* a step that takes the next id and leaves the variant file unwritten
WriteFile_no_write ==
    /\ pc = "write"
    /\ variant_id' = NextVariantId(count_generated, attempts)
    /\ pc' = "row"
    /\ UNCHANGED <<args, run, clock, rng, fs, produced, out, prev, heap, template_root,
                   clones, mapping, seen, count_generated, attempts, values, vals_tuple,
                   affected, xml_text>>
    /\ UNCHANGED <<rejected, jm, tz>>

\* lines 380-385: take the next id and write the variant file
WriteFile ==
    /\ pc = "write"
    /\ variant_id' = NextVariantId(count_generated, attempts)
    /\ LET xml_filename == XmlFilename(args.input, NextVariantId(count_generated, attempts))
       IN  /\ fs' = [fs EXCEPT !.files = (xml_filename :> xml_text) @@ fs.files]
           /\ produced' = produced \cup {Artefact("file", xml_filename.id)}
    /\ pc' = "row"
    /\ UNCHANGED <<args, run, clock, rng, out, prev, heap, template_root, clones,
                   mapping, seen, count_generated, attempts, values, vals_tuple,
                   affected, xml_text>>
    /\ UNCHANGED <<rejected, jm, tz>>

\* lines 388-397: append the manifest row
WriteRow ==
    /\ pc = "row"
    /\ LET row == [variant_id |-> variant_id,
                   xml_filename |-> XmlFilename(args.input, variant_id),
                   name |-> values.name, address |-> values.address,
                   date |-> values.date, time |-> values.time,
                   xml_content |-> xml_text]
       IN  fs' = [fs EXCEPT !.manifest.rows = Append(@, row)]
    /\ pc' = "incr"
    /\ UNCHANGED <<args, run, clock, rng, produced, out, prev>>
    /\ UNCHANGED procVars
    /\ UNCHANGED <<jm, tz>>

\* line 399
Increment ==
    /\ pc = "incr"
    /\ count_generated' = count_generated + 1
    /\ pc' = "loop"
    /\ UNCHANGED <<args, run, clock, rng, fs, produced, out, prev, heap,
                   template_root, clones, mapping, seen, attempts, values, vals_tuple,
                   affected, xml_text, variant_id>>
    /\ UNCHANGED <<rejected, jm, tz>>

\* a warning that only looks at the attempts
WarnCond_attempts_only(c, a, n, max) == a >= max

\* the condition of the warning, line 403
WarnCond(c, a, n, max) == a >= max /\ c < n

\* lines 401-404: the final messages
Report ==
    /\ pc = "report"
    /\ out' = out \o <<"OK generated", "OK manifest">>
                  \o (IF WarnCond(count_generated, attempts, args.n, max_total_attempts)
                      THEN <<"WARN">> ELSE <<>>)
    /\ pc' = "done"
    /\ UNCHANGED <<args, run, clock, rng, fs, produced, prev>>
    /\ UNCHANGED procVars
    /\ UNCHANGED <<jm, tz>>

\* ------------------------------------------------------------------------
\* The environment
\* ------------------------------------------------------------------------
\* time passes between two runs (a run is short against one tick of the clock)
Tick ==
    /\ pc \in {"done", "aborted"}
    /\ clock < MaxClock
    /\ clock' = clock + 1
    /\ UNCHANGED <<args, pc, run, rng, fs, produced, out, prev>>
    /\ UNCHANGED procVars
    /\ UNCHANGED <<jm, tz>>

\* the same command line is run again: a new process on the same file system
Rerun ==
    /\ pc \in {"done", "aborted"}
    /\ run < MaxRuns
    /\ run' = run + 1
    /\ prev' = [rows |-> fs.manifest.rows,
                files |-> {a \in produced : a.kind = "file"}]
    /\ pc' = "start"
    /\ produced' = {}
    /\ out' = <<>>
    /\ heap' = <<>>
    /\ template_root' = 0
    /\ clones' = <<>>
    /\ mapping' = <<>>
    /\ seen' = {}
    /\ count_generated' = 0
    /\ attempts' = 0
    /\ values' = NoValues
    /\ vals_tuple' = <<>>
    /\ affected' = <<>>
    /\ xml_text' = <<>>
    /\ variant_id' = 0
    /\ rejected' = 0
    /\ UNCHANGED <<args, clock, rng, fs, jm, tz>>

Step ==
    \/ Start
    \/ ReadXml
    \/ OpenManifest
    \/ LoopTest
    \/ Attempt
    \/ Apply
    \/ WriteFile
    \/ WriteRow
    \/ Increment
    \/ Report

Next ==
    \/ Step
    \/ Tick
    \/ Rerun

Spec == Init /\ [][Next]_vars

\* the command lines of the runs followed to their end: every count, every
\* mapping, a template that parses and one that does not
FairArgs ==
    {a \in Args : a.seed = <<0>> /\ a.locale = "generic" /\ a.input # "namespaced"}

FairInit == Init /\ args \in FairArgs

\* main() is a sequential program: it always takes its next step
FairSpec == FairInit /\ [][Next]_vars /\ WF_vars(Step)

\* no converter process: main() is not running
NoArgs ==
    [input |-> "plain", n |-> 0, map |-> <<>>, vary_formats |-> FALSE, seed |-> <<>>,
     locale |-> "generic", date_formats |-> DEFAULT_DATE_FORMATS,
     time_formats |-> DEFAULT_TIME_FORMATS]

NoMain ==
    /\ args = NoArgs
    /\ pc = "off"
    /\ run = 1
    /\ clock = 1
    /\ rng = 0
    /\ fs = [dir |-> FALSE, manifest |-> NoManifest, files |-> <<>>]
    /\ produced = {}
    /\ out = <<>>
    /\ prev = [rows |-> <<>>, files |-> {}]
    /\ FreshProcess

mainVars == <<args, pc, run, clock, rng, fs, produced, out, prev, procVars>>

\* ------------------------------------------------------------------------
\* random_tz_offset_str called on its own, MaxTzCalls times in a row from
\* each of the seeds 0..MaxTzSeed
\* ------------------------------------------------------------------------
TzInit ==
    /\ NoMain
    /\ jm = JmIdle
    /\ tz \in {[pc |-> "seeded", rng |-> RandomSeed(s), calls |-> 0] : s \in 0..MaxTzSeed}

\* one call: the two draws of lines 183-184 and the text of line 186
TzCall ==
    /\ tz.pc \in {"seeded", "returned"}
    /\ tz.calls < MaxTzCalls
    /\ \E offset_hours \in {RandInt(tz.rng, TzHourLo, TzHourHi)} :
       \E offset_minutes \in {RandChoice(offset_hours.rng, TZ_MINUTES)} :
       \E off \in {random_tz_offset_str(tz.rng)} :
           tz' = [pc |-> "returned", rng |-> off.rng, calls |-> tz.calls + 1,
                  offset_hours |-> offset_hours.r, offset_minutes |-> offset_minutes.r,
                  text |-> off.r]
    /\ UNCHANGED mainVars
    /\ UNCHANGED jm

TzNext == TzCall

TzSpec == TzInit /\ [][TzNext]_vars

\* ------------------------------------------------------------------------
\* HybridReportMerger.parse_jmeter_results (merge_reports.py) called on its
\* own on a results.jtl of at most MaxRows rows
\* ------------------------------------------------------------------------
\* a CSV field that int() accepts, and one it rejects with ValueError
Num(n) == [int |-> TRUE, v |-> n]
Junk == [int |-> FALSE, v |-> 0]

\* the rows csv.DictReader yields: the columns parse_jmeter_results reads
\* and int() or lower() can tell apart
JtlRows ==
    [elapsed : {Num(5), Num(9), Junk},
     success : {"true", "TRUE", "false"},
     timeStamp : {Num(1000), Num(3000), Junk}]

RECURSIVE SeqsUpTo(_, _)
SeqsUpTo(S, n) ==
    IF n = 0 THEN {<<>>}
    ELSE SeqsUpTo(S, n - 1) \cup
         {Append(q, x) : q \in {r \in SeqsUpTo(S, n - 1) : Len(r) = n - 1}, x \in S}

\* results.jtl: absent, or a header line and up to MaxRows rows
JtlFiles ==
    {[exists |-> FALSE, rows |-> <<>>]} \cup
    {[exists |-> TRUE, rows |-> rows] : rows \in SeqsUpTo(JtlRows, MaxRows)}

\* a float that is the quotient of two integers
Ratio(num, den) == [num |-> num, den |-> den]

\* float('inf') and the finite response times
Inf == [inf |-> TRUE, v |-> 0]
Fin(v) == [inf |-> FALSE, v |-> v]

\* min(jmeter_data['min_response_time'], response_time)
MinTime(m, response_time) ==
    IF m.inf \/ response_time < m.v THEN Fin(response_time) ELSE m

\* max(jmeter_data['max_response_time'], response_time)
MaxTime(m, response_time) == IF response_time > m THEN response_time ELSE m

RECURSIVE Sum(_)
Sum(seq) == IF seq = <<>> THEN 0 ELSE Head(seq) + Sum(Tail(seq))

\* jmeter_data as parse_jmeter_results creates it, lines 25-35
NewJmeterData ==
    [total_requests |-> 0, successful_requests |-> 0, failed_requests |-> 0,
     avg_response_time |-> Ratio(0, 1), min_response_time |-> Inf,
     max_response_time |-> 0, throughput |-> Ratio(0, 1), error_rate |-> Ratio(0, 1),
     requests |-> <<>>]

JmInit ==
    /\ NoMain
    /\ tz = TzIdle
    /\ jm \in {[pc |-> "called", file |-> f, i |-> 0, data |-> NewJmeterData,
                 response_times |-> <<>>, printed |-> <<>>] : f \in JtlFiles}

\* lines 37-44: return the empty summary with a warning when the file is not
\* there, otherwise open it and read the header
JmOpen ==
    /\ jm.pc = "called"
    /\ jm' = IF ~jm.file.exists
             THEN [jm EXCEPT !.pc = "returned", !.printed = Append(@, "Warning")]
             ELSE [jm EXCEPT !.pc = "rows", !.i = 1]
    /\ UNCHANGED mainVars
    /\ UNCHANGED tz

\* lines 46-72: one pass of the loop over the rows; int() of a field that is
\* not a number raises ValueError, which line 87 catches
JmRow ==
    /\ jm.pc = "rows"
    /\ jm.i <= Len(jm.file.rows)
    /\ LET row == jm.file.rows[jm.i]
           counted == [jm.data EXCEPT !.total_requests = @ + 1]
           response_time == row.elapsed.v
           success == Lower(row.success) = "true"
       IN  jm' = IF ~row.elapsed.int
                 THEN [jm EXCEPT !.pc = "returned", !.data = counted,
                                 !.printed = Append(@, "Error")]
                 ELSE [jm EXCEPT
                         !.i = @ + 1,
                         !.response_times = Append(@, response_time),
                         !.data =
                            [counted EXCEPT
                               !.min_response_time = MinTime(@, response_time),
                               !.max_response_time = MaxTime(@, response_time),
                               !.successful_requests = IF success THEN @ + 1 ELSE @,
                               !.failed_requests = IF success THEN @ ELSE @ + 1,
                               !.requests = Append(@, [timestamp |-> row.timeStamp,
                                                       response_time |-> response_time,
                                                       success |-> success])]]
    /\ UNCHANGED mainVars
    /\ UNCHANGED tz

\* lines 74-90: the averages and rates after the loop, and the return
JmSummary ==
    /\ jm.pc = "rows"
    /\ jm.i > Len(jm.file.rows)
    /\ LET d == jm.data
           rated == [d EXCEPT
                       !.avg_response_time =
                           Ratio(Sum(jm.response_times), Len(jm.response_times)),
                       !.error_rate = Ratio(d.failed_requests * 100, d.total_requests)]
           start_time == d.requests[1].timestamp
           end_time == d.requests[Len(d.requests)].timestamp
       IN  jm' = IF jm.response_times = <<>>
                 THEN [jm EXCEPT !.pc = "returned"]
                 ELSE IF ~start_time.int \/ ~end_time.int
                 THEN [jm EXCEPT !.pc = "returned", !.data = rated,
                                 !.printed = Append(@, "Error")]
                 ELSE IF end_time.v - start_time.v > 0
                 THEN [jm EXCEPT !.pc = "returned",
                          !.data = [rated EXCEPT !.throughput =
                                       Ratio(d.total_requests * 1000,
                                             end_time.v - start_time.v)]]
                 ELSE [jm EXCEPT !.pc = "returned", !.data = rated]
    /\ UNCHANGED mainVars
    /\ UNCHANGED tz

JmNext ==
    \/ JmOpen
    \/ JmRow
    \/ JmSummary

JmSpec == JmInit /\ [][JmNext]_vars

TypeOK ==
    /\ pc \in {"start", "read", "open", "loop", "attempt", "apply", "write", "row",
               "incr", "report", "done", "aborted"}
    /\ run \in 1..MaxRuns
    /\ clock \in 1..MaxClock
    /\ count_generated \in Nat
    /\ attempts \in Nat

\* ------------------------------------------------------------------------
\* Properties
\* ------------------------------------------------------------------------
Last(seq) == seq[Len(seq)]

\* the manifest rows written by the current run
ThisRunRows ==
    IF Artefact("manifest", 0) \in produced THEN fs.manifest.rows ELSE <<>>

\* the variant files written by the current run
ThisRunFiles == {a \in produced : a.kind = "file"}

\* C1: in every state of the generation loop the attempt counter is at most
\* N * 20 and the accepted counter is at most N.
C1_AttemptBound ==
    /\ attempts <= args.n * AttemptMultiplier
    /\ count_generated <= args.n

C1_Witness ==
    /\ pc = "loop"
    /\ args.n = 2
    /\ attempts = args.n * AttemptMultiplier
    /\ count_generated = 1

\* the projection of a manifest row onto the keys of the mapping (a key the
\* ValueSet does not have projects to None)
Projection(row, m) ==
    [i \in 1..Len(m) |-> IF m[i].key \in DOMAIN NoValues THEN row[m[i].key] ELSE None]

\* C2: no two accepted variants of one run agree on the value of every
\* mapped key.
C2_Uniqueness ==
    \A i, j \in 1..Len(ThisRunRows) :
        i < j => Projection(ThisRunRows[i], mapping) # Projection(ThisRunRows[j], mapping)

C2_Witness ==
    /\ Len(ThisRunRows) = 2
    /\ attempts > 2
    /\ used_keys(mapping) # <<>>

\* C3: a second run with the same command line and the same integer seed
\* leaves the same manifest content and the same set of variant files as the
\* first, whenever it executes.
C3_SeededRerunIdentical ==
    (run > 1 /\ pc = "done" /\ args.seed # <<>>) =>
        /\ fs.manifest.rows = prev.rows
        /\ ThisRunFiles = prev.files

\* C4: the generation loop terminates, and it stops exactly in one of
\* count_generated = N, or attempts = N * 20 with count_generated < N.
C4_Termination ==
    /\ [](pc \in {"report", "done"} =>
            \/ count_generated = args.n
            \/ attempts = args.n * AttemptMultiplier /\ count_generated < args.n)
    /\ [](pc = "loop" => <>(pc = "report"))

C4_Witness ==
    /\ pc = "report"
    /\ args.n > 0
    /\ count_generated < args.n
    /\ attempts = args.n * AttemptMultiplier

\* C5: the warning is printed exactly when the run ends with attempts at the
\* bound and count_generated < N, never when count_generated = N; the run
\* then still reports what it produced, and the manifest has count_generated
\* rows.
C5_ExhaustionWarning ==
    pc = "done" =>
        /\ "WARN" \in Range(out) <=>
              (attempts = args.n * AttemptMultiplier /\ count_generated < args.n)
        /\ count_generated = args.n => "WARN" \notin Range(out)
        /\ "OK generated" \in Range(out)
        /\ "OK manifest" \in Range(out)
        /\ Len(ThisRunRows) = count_generated

C5_Witness ==
    /\ pc = "done"
    /\ "WARN" \in Range(out)
    /\ count_generated > 0

\* C6: the manifest holds one row per accepted variant in acceptance order,
\* the k-th row carries id k (also when attempts were rejected in between),
\* and within a run a row once written stays as it is.
C6_ManifestRows ==
    /\ [](/\ \A k \in 1..Len(ThisRunRows) : ThisRunRows[k].variant_id = k
          /\ Len(ThisRunRows) = IF pc = "incr" THEN count_generated + 1
                                ELSE count_generated)
    /\ [][run' = run =>
            /\ Len(ThisRunRows') >= Len(ThisRunRows)
            /\ SubSeq(ThisRunRows', 1, Len(ThisRunRows)) = ThisRunRows]_vars

C6_Witness ==
    /\ Len(ThisRunRows) = 2
    /\ ThisRunRows[2].variant_id = 2
    /\ attempts > 2
    /\ pc = "loop"

\* C7: apply_values_to_tree never changes the template: its serialized form
\* stays what it was when it was read, and each clone keeps the serialized
\* form it was written with whatever is done to later clones.
C7_TemplateUntouched ==
    template_root # 0 =>
        /\ tostring(heap, template_root) = InputDoc(args.input)
        /\ \A k \in 1..Len(clones) :
              Artefact("file", k) \in produced =>
                  tostring(heap, clones[k]) = fs.files[XmlFilename(args.input, k)]

C7_Witness ==
    /\ Len(clones) = 2
    /\ Artefact("file", 2) \in produced
    /\ tostring(heap, clones[1]) # tostring(heap, clones[2])
    /\ tostring(heap, clones[2]) # tostring(heap, template_root)

\* C8: for a selector that begins with '.' or '/', when the path query raises
\* or matches nothing and the tree has elements whose local name matches the
\* stripped selector, those elements are the result and get the value.
C8_FallbackOnEmpty ==
    pc = "write" =>
        \A i \in 1..Len(mapping) :
            LET key == mapping[i].key
                sel == mapping[i].sel
                q == FindAll(heap, Last(clones), sel)
                fb == find_elements_ns_agnostic(heap, Last(clones), StripPath(sel))
            IN  (/\ key \in DOMAIN values
                 /\ sel[1] \in {".", "/"}
                 /\ q.raised \/ q.els = <<>>
                 /\ fb # <<>>) =>
                    /\ select_elements(heap, Last(clones), sel) = fb
                    /\ \A id \in Range(fb) : heap[id].text = values[key]

\* C9: when the template cannot be parsed the run aborts with no attempt
\* made and nothing created or written: no variant file, no manifest, no
\* output directory.
C9_NothingOnAbort ==
    pc = "aborted" =>
        /\ attempts = 0
        /\ produced = {}

\* the mapped keys that have a value and whose selector matches no element
\* of the template
Misses ==
    {i \in 1..Len(mapping) :
        /\ mapping[i].key \in DOMAIN values
        /\ select_elements(heap, template_root, mapping[i].sel) = <<>>}

\* C10: a mapped selector that matches nothing is not an error: zero touched
\* nodes are recorded for it, the other keys are still applied, and the
\* attempt is written to disk and to the manifest and counted.
C10_SelectorMiss ==
    (Misses # {} /\ pc \in {"write", "row", "incr"}) =>
        /\ \A i \in 1..Len(mapping) :
              mapping[i].key \in DOMAIN values =>
                LET els == select_elements(heap, Last(clones), mapping[i].sel)
                IN  /\ i \in Misses => els = <<>>
                    /\ mapping[i].key \in DOMAIN affected
                    /\ affected[mapping[i].key] = Len(els)
                    /\ \A id \in Range(els) : heap[id].text = values[mapping[i].key]
        /\ (\A i \in 1..Len(mapping) : mapping[i].key \in DOMAIN values => i \in Misses)
              => xml_text = tostring(heap, template_root)
        /\ pc \in {"row", "incr"} =>
              /\ variant_id = count_generated + 1
              /\ fs.files[XmlFilename(args.input, variant_id)] = xml_text
        /\ pc = "incr" =>
              /\ Len(ThisRunRows) = count_generated + 1
              /\ Last(ThisRunRows).variant_id = variant_id
              /\ Last(ThisRunRows).xml_content = xml_text

C10_Witness ==
    /\ pc = "incr"
    /\ Misses # {}
    /\ \E i \in 1..Len(mapping) : i \notin Misses /\ \E j \in Misses : j < i
    /\ xml_text # tostring(heap, template_root)

\* C11: with format-varying disabled every candidate has its date in the
\* first date format and its time in the first time format, without a zone
\* suffix, and so has every manifest row.
C11_FormatInvariance ==
    ~args.vary_formats =>
        /\ attempts > 0 =>
              /\ values.date.fmt = args.date_formats[1]
              /\ values.time.fmt = args.time_formats[1]
              /\ values.time.zone = NoZone
        /\ \A k \in 1..Len(ThisRunRows) :
              /\ ThisRunRows[k].date.fmt = args.date_formats[1]
              /\ ThisRunRows[k].time.fmt = args.time_formats[1]
              /\ ThisRunRows[k].time.zone = NoZone

C11_Witness ==
    /\ ~args.vary_formats
    /\ pc = "done"
    /\ Len(ThisRunRows) = 2
    /\ ThisRunRows[2].time.fmt = "%H:%M"

\* C12: an attempt whose tuple is already in the seen set takes one attempt
\* and changes nothing else: not the accepted count, the seen set, the file
\* system or the trees, and the loop goes back to its head.
C12_RejectedAttempt ==
    [][(pc = "attempt" /\ vals_tuple' \in seen) =>
          /\ attempts' = attempts + 1
          /\ pc' = "loop"
          /\ UNCHANGED <<count_generated, seen, fs, produced, heap, clones, affected,
                         xml_text, variant_id>>]_vars

C12_Witness ==
    /\ pc = "loop"
    /\ attempts = 2
    /\ count_generated = 1
    /\ Len(ThisRunRows) = 1
    /\ Cardinality(seen) = 1

\* C13 as claimed: the uniqueness tuple has one component per key of the
\* mapping, custom keys included.
C13_TupleLenAllKeys ==
    attempts > 0 => Len(vals_tuple) = Len(mapping)

\* the built-in keys the mapping has, in the order name, address, date, time
BuiltinKeysOf(m) ==
    SelectSeq(<<"name", "address", "date", "time">>,
              LAMBDA k : k \in {m[i].key : i \in 1..Len(m)})

\* C13 as amended: the uniqueness tuple has one component for each of the
\* four built-in keys present in the mapping, holding that key's value, so a
\* mapping of custom keys only yields the empty tuple.
C13_TupleLenBuiltinKeys ==
    attempts > 0 =>
        /\ Len(vals_tuple) = Len(BuiltinKeysOf(mapping))
        /\ \A i \in 1..Len(vals_tuple) : vals_tuple[i] = values[BuiltinKeysOf(mapping)[i]]

C13_Witness ==
    /\ attempts > 0
    /\ Len(mapping) = 1
    /\ mapping[1].key = "custom"
    /\ vals_tuple = <<>>

\* C17: in an accepted attempt the tuple is added to the seen set, then the
\* clone is built, then the id count_generated + 1 is taken and the file
\* written, then the row appended, then count_generated incremented; so
\* rows <= files <= size of seen, each pair at most one apart, and
\* count_generated <= rows.
C17_StepOrder ==
    LET r == Len(ThisRunRows)
        f == Cardinality(ThisRunFiles)
        n == Cardinality(seen)
    IN  /\ r <= f /\ f <= n /\ f - r <= 1 /\ n - f <= 1
        /\ count_generated <= r
        /\ pc = "apply" =>
              n = count_generated + 1 /\ Len(clones) = count_generated /\ f = count_generated
        /\ pc = "write" =>
              n = count_generated + 1 /\ Len(clones) = count_generated + 1
                 /\ f = count_generated
        /\ pc = "row" =>
              variant_id = count_generated + 1 /\ f = count_generated + 1
                 /\ r = count_generated
        /\ pc = "incr" => r = count_generated + 1 /\ f = r /\ n = r

C17_Witness ==
    /\ pc = "row"
    /\ count_generated = 1
    /\ Cardinality(ThisRunFiles) = 2
    /\ Len(ThisRunRows) = 1

\* C18: at the head of every iteration the seen set has count_generated
\* elements and attempts = count_generated + rejected attempts; within a run
\* the seen set only grows, by exactly one element in an accepted attempt and
\* by none in a rejected one.
C18_SeenGrowth ==
    /\ [](pc = "loop" =>
             /\ Cardinality(seen) = count_generated
             /\ attempts = count_generated + rejected)
    /\ [][/\ run' = run => seen \subseteq seen'
          /\ (pc = "attempt" /\ pc' = "apply") =>
                 /\ Cardinality(seen') = Cardinality(seen) + 1
                 /\ rejected' = rejected
          /\ (pc = "attempt" /\ pc' = "loop") =>
                 /\ seen' = seen
                 /\ rejected' = rejected + 1]_vars

C18_Witness ==
    /\ pc = "loop"
    /\ count_generated = 2
    /\ rejected >= 1
    /\ Cardinality(seen) = 2

\* the nodes of the tree at root, as element ids in document order
TreeIds(h, root) == [i \in 1..Len(tostring(h, root)) |-> root + i - 1]

\* the keys of the mapping that apply_values_to_tree gives a value to
ValuedKeys == {i \in 1..Len(mapping) : mapping[i].key \in DOMAIN values}

\* the nodes of the newest clone that the i-th selector matches
Matched(i) == select_elements(heap, Last(clones), mapping[i].sel)

\* C14 as stated: after apply_values_to_tree every node matched by a valued
\* key's selector carries that key's value and the count recorded for the
\* key is the number of matched nodes, for every mapping.
C14_EveryKeyApplied ==
    pc \in {"write", "row", "incr"} =>
        \A i \in ValuedKeys :
            /\ affected[mapping[i].key] = Len(Matched(i))
            /\ \A id \in Range(Matched(i)) : heap[id].text = values[mapping[i].key]

\* C14: after apply_values_to_tree every node matched by some valued key's
\* selector carries the value of the last such key in mapping order, and the
\* count recorded for each valued key is the number of nodes it matched.
C14_LastKeyWins ==
    pc \in {"write", "row", "incr"} =>
        \A i \in ValuedKeys :
            /\ affected[mapping[i].key] = Len(Matched(i))
            /\ \A id \in Range(Matched(i)) :
                  LET last == CHOOSE j \in ValuedKeys :
                                  /\ id \in Range(Matched(j))
                                  /\ \A k \in ValuedKeys :
                                        id \in Range(Matched(k)) => k <= j
                  IN  heap[id].text = values[mapping[last].key]

C14_Witness ==
    /\ pc = "incr"
    /\ \E i, j \in ValuedKeys :
          /\ i < j
          /\ Range(Matched(i)) \cap Range(Matched(j)) # {}
          /\ Len(Matched(j)) = 2

\* the tree at root with every text erased
Shape(h, root) ==
    [i \in 1..Len(tostring(h, root)) |-> [tostring(h, root)[i] EXCEPT !.text = None]]

\* the selectors of the mapping that are plain tag names
TagSelectors == {i \in 1..Len(mapping) : mapping[i].sel[1] \notin {".", "/"}}

\* the newest clone, when there is one
NewestClone == IF clones = <<>> THEN {} ELSE {Last(clones)}

\* C15: on the template and on the newest clone, a selector that is a plain tag
\* name selects exactly the nodes, root included, whose local name equals it
\* case-insensitively whatever their namespace, in document order; and the
\* clone that was searched still has the template's elements and nesting,
\* with the template itself as it was read.
C15_TagSelector ==
    template_root # 0 =>
        /\ \A i \in TagSelectors :
           \A root \in {template_root} \cup NewestClone :
              select_elements(heap, root, mapping[i].sel) =
                  SelectSeq(TreeIds(heap, root),
                            LAMBDA id : Lower(heap[id].local) = Lower(mapping[i].sel[1]))
        /\ \A root \in NewestClone : Shape(heap, root) = Shape(heap, template_root)
        /\ tostring(heap, template_root) = InputDoc(args.input)

C15_Witness ==
    /\ pc = "incr"
    /\ \E i \in TagSelectors \cap ValuedKeys :
          /\ Matched(i) = <<Last(clones)>>
          /\ mapping[i].sel[1] # heap[Last(clones)].local
          /\ heap[Last(clones)].ns # ""
    /\ \E i \in TagSelectors \cap ValuedKeys :
          /\ Len(Matched(i)) = 2
          /\ heap[Matched(i)[1]].ns # heap[Matched(i)[2]].ns

\* the rendered offset read as a signed number of minutes
SignedMinutes(text) ==
    IF text.sign = "-" THEN 0 - (text.hh * 60 + text.mm) ELSE text.hh * 60 + text.mm

\* C16: every offset random_tz_offset_str renders lies between -12:00 and
\* +14:00, that is between -720 and +840 minutes, and its sign is '+'
\* exactly when the drawn hours are non-negative.
C16_OffsetRange ==
    tz.pc = "returned" =>
        /\ SignedMinutes(tz.text) >= TzHourLo * 60
        /\ SignedMinutes(tz.text) <= TzHourHi * 60
        /\ (tz.text.sign = "+") <=> (tz.offset_hours >= 0)

\* C19: the summary parse_jmeter_results returns has successful_requests +
\* failed_requests = total_requests = number of entries of 'requests', also
\* when a row made the parse raise partway through.
C19_CountsAgree ==
    jm.pc = "returned" =>
        /\ jm.data.successful_requests + jm.data.failed_requests = jm.data.total_requests
        /\ jm.data.total_requests = Len(jm.data.requests)

====
